---- MODULE Spec2Model ----
(***************************************************************************)
(* Model of MyProject.py: the crawl / checkpoint / graph-assembly script.  *)
(*                                                                         *)
(* State: the files on disk (the topic CSV, the per-person CSVs, the       *)
(* GraphML export), which survive the process, and the module-level        *)
(* variables of one invocation of the script (original_people,             *)
(* person_gender_map, G, the loop positions).  One action per step of the  *)
(* script; the script is re-invoked by Restart.                            *)
(*                                                                         *)
(* A title is a sequence of characters, so that replace(' ', '_') and      *)
(* strip() are computed, not assumed.                                      *)
(***************************************************************************)
EXTENDS Naturals, Sequences, FiniteSets, TLC

VARIABLES
    files,              \* path -> NoFile or File(the CSV lines on disk)
    closed,             \* ghost: paths whose save_to_csv ran to completion
    graphFile,          \* the GraphML export: [state, graph]
    pc,                 \* position of the running script
    cause,              \* why the last invocation ended early ("none" if it did not)
    pending,            \* person_data handed to the save_to_csv in progress
    original_people,    \* set of names read from the topic CSV
    person_gender_map,  \* name -> gender read from the topic CSV
    order,              \* iteration order of the set original_people in this process
    idx,                \* position of the current for loop in order
    rowIdx,             \* position of the reader in the current person CSV (Step 4)
    G,                  \* the DiGraph under construction
    calls,              \* ghost: title -> number of process_page calls in this invocation
    fetched,            \* ghost: what the process_page call in progress was served
    startFull,          \* ghost: all checkpoints were present when this invocation began
    owner               \* ghost: path -> the title whose process_page result the file was opened for

vars == <<files, closed, graphFile, pc, cause, pending, original_people,
          person_gender_map, order, idx, rowIdx, G, calls, fetched, startFull, owner>>

(***************************************************************************)
(* Bounds of the model.                                                    *)
(***************************************************************************)
\* largest number of links the topic page carries
MaxTopicLinks == 2
\* largest number of links a person's page carries
MaxPersonLinks == 1

(***************************************************************************)
(* Titles, genders, paths.                                                 *)
(***************************************************************************)
topic_title == <<"A", " ", "I">>
PersonXsY   == <<"x", " ", "y">>
PersonX_Y   == <<"x", "_", "y">>
NonPerson   == <<"t">>

\* The titles the NLP model labels PERSON, and all link titles a page may
\* carry.  The topic's own title is one of them (a topic that is a person's
\* name); two titles differ only in ' ' against '_'.
People == {topic_title, PersonXsY, PersonX_Y}
Titles == People \cup {NonPerson}

output_folder == "Wiki_Person_Connections"

\* raw answers of gender_guesser's Detector.get_gender
GenderResults == {"male", "mostly_male", "female", "mostly_female", "andy", "unknown"}
Gender == {"Male", "Female", "Unknown"}

\* a path with no file, and a file holding the given lines
NoFile == [exists |-> FALSE, lines |-> <<>>]
File(lines) == [exists |-> TRUE, lines |-> lines]

\* the header row ["Name", "Gender"]
Header == <<<<"N", "a", "m", "e">>, "Gender">>

\* str.replace(' ', '_')
Replace(s) == [i \in 1..Len(s) |-> IF s[i] = " " THEN "_" ELSE s[i]]

RECURSIVE LStrip(_)
LStrip(s) == IF s # <<>> /\ Head(s) = " " THEN LStrip(Tail(s)) ELSE s

RECURSIVE RStrip(_)
RStrip(s) == IF s # <<>> /\ s[Len(s)] = " " THEN RStrip(SubSeq(s, 1, Len(s) - 1)) ELSE s

\* str.strip()
Strip(s) == RStrip(LStrip(s))

main_csv_filename == <<".", Replace(topic_title), "_Linked_People.csv">>
person_filename(name) == <<output_folder, Replace(name), ".csv">>

Paths == {main_csv_filename} \cup {person_filename(n) : n \in People}

\* os.path.exists
Exists(path) == files[path].exists

(***************************************************************************)
(* detect_gender, is_person_name, process_page.                            *)
(***************************************************************************)
detect_gender(raw) ==
    IF raw \in {"male", "mostly_male"} THEN "Male"
    ELSE IF raw \in {"female", "mostly_female"} THEN "Female"
    ELSE "Unknown"

is_person_name(text) == text \in People

\* the link titles of a page: distinct (keys of a dict), in the order returned
LinkSeqs(max) ==
    {s \in UNION {[1..n -> Titles] : n \in 0..max} :
        \A i, j \in 1..Len(s) : i # j => s[i] # s[j]}

RECURSIVE PersonData(_, _, _)
\* the for loop of process_page over links[i..]; guess[k] is the detector's
\* answer for links[k]
PersonData(links, guess, i) ==
    IF i > Len(links) THEN <<>>
    ELSE IF is_person_name(links[i])
         THEN <<<<links[i], detect_gender(guess[i])>>>> \o PersonData(links, guess, i + 1)
         ELSE PersonData(links, guess, i + 1)

\* process_page that builds person_data back to front
process_page_reversed(pageExists, links, guess) ==
    IF ~pageExists THEN <<>>
    ELSE LET d == PersonData(links, guess, 1)
         IN  [k \in 1..Len(d) |-> d[Len(d) + 1 - k]]

process_page(pageExists, links, guess) ==
    IF ~pageExists THEN <<>> ELSE PersonData(links, guess, 1)

\* The pages the source may serve and the detector's answers for their links.
\* Wikipedia and gender_guesser are outside the script: what they return is
\* an input of each call.  The detector is asked only for PERSON links.
Fetches(max) ==
    {<<e, l, g>> \in BOOLEAN \X LinkSeqs(max) \X UNION {[1..n -> GenderResults] : n \in 0..max} :
        /\ Len(g) = Len(l)
        /\ \A i \in 1..Len(l) : ~is_person_name(l[i]) => g[i] = "unknown"
        /\ ~e => l = <<>>}

\* the lines save_to_csv writes
CsvLines(person_data) == <<Header>> \o person_data

(***************************************************************************)
(* networkx.DiGraph                                                        *)
(***************************************************************************)
NoAttrs == [k \in {} |-> ""]
EmptyGraph == [node |-> [n \in {} |-> NoAttrs], edges |-> {}]

\* the export file: absent, cut short by a kill, or the graph write_graphml wrote
NoGraphFile == [state |-> "none", graph |-> EmptyGraph]
PartialGraphFile == [state |-> "partial", graph |-> EmptyGraph]
GraphFile(g) == [state |-> "written", graph |-> g]

\* dict.update
Update(old, new) ==
    [k \in DOMAIN old \cup DOMAIN new |-> IF k \in DOMAIN new THEN new[k] ELSE old[k]]

\* G.add_node(n, **attrs): creates the node or updates the attributes of an existing one
add_node(g, n, attrs) ==
    [g EXCEPT !.node =
        [x \in DOMAIN g.node \cup {n} |->
            IF x = n
            THEN Update(IF n \in DOMAIN g.node THEN g.node[n] ELSE NoAttrs, attrs)
            ELSE g.node[x]]]

\* G.add_edge(u, v): creates missing end points without attributes
add_edge(g, u, v) ==
    [node  |-> [x \in DOMAIN g.node \cup {u, v} |->
                    IF x \in DOMAIN g.node THEN g.node[x] ELSE NoAttrs],
     edges |-> g.edges \cup {<<u, v>>}]

(***************************************************************************)
(* Reading a CSV back (csv.reader, next(reader), row[0].strip()).          *)
(* A gender is an atom of the model; strip() leaves it as written.         *)
(***************************************************************************)
\* the names of the non-empty rows
NamesOf(rows) == {Strip(rows[i][1]) : i \in 1..Len(rows)} \ {<<>>}

\* person_gender_map after the loop: a later row of the same name overwrites
GenderMapOf(rows) ==
    [n \in NamesOf(rows) |->
        LET last == CHOOSE i \in 1..Len(rows) :
                        /\ Strip(rows[i][1]) = n
                        /\ \A j \in 1..Len(rows) : j > i => Strip(rows[j][1]) # n
        IN  rows[last][2]]

\* the orders in which a set may be iterated
Orders(S) == {s \in [1..Cardinality(S) -> S] : \A i, j \in 1..Cardinality(S) : i # j => s[i] # s[j]}

\* the frontier named by the topic CSV as it is on disk
FrontierOnDisk ==
    IF files[main_csv_filename].lines = <<>> THEN {}
    ELSE NamesOf(Tail(files[main_csv_filename].lines))

AllCheckpointed ==
    /\ Exists(main_csv_filename)
    /\ \A n \in FrontierOnDisk : Exists(person_filename(n))

Running == pc \notin {"done", "aborted"}

NoCalls == [t \in Titles |-> 0]

\* no process_page call is in progress
NoFetch == <<TRUE, <<>>, <<>>>>

\* no process has opened the path for writing
NoOwner == <<>>

(***************************************************************************)
(* Initial state: a fresh working directory, first invocation.             *)
(***************************************************************************)
Init ==
    /\ files = [p \in Paths |-> NoFile]
    /\ closed = {}
    /\ graphFile = NoGraphFile
    /\ pc = "step1"
    /\ cause = "none"
    /\ pending = <<>>
    /\ original_people = {}
    /\ person_gender_map = <<>>
    /\ order = <<>>
    /\ idx = 0
    /\ rowIdx = 0
    /\ G = EmptyGraph
    /\ calls = NoCalls
    /\ fetched = NoFetch
    /\ startFull = FALSE
    /\ owner = [p \in Paths |-> NoOwner]

\* the module-level variables of a process that has not run Step 1 yet
FreshMemory ==
    /\ pending' = <<>>
    /\ fetched' = NoFetch
    /\ original_people' = {}
    /\ person_gender_map' = <<>>
    /\ order' = <<>>
    /\ idx' = 0
    /\ rowIdx' = 0
    /\ G' = EmptyGraph

\* the process ends early: an uncaught exception or a kill
Abort(why) ==
    /\ pc' = "aborted"
    /\ cause' = why
    /\ FreshMemory
    /\ calls' = NoCalls
    /\ UNCHANGED <<startFull, owner>>

(***************************************************************************)
(* Step 1: the topic page.                                                 *)
(***************************************************************************)
\* the else branch: the topic CSV exists
Step1Skip ==
    /\ pc = "step1"
    /\ Exists(main_csv_filename)
    /\ pc' = "load"
    /\ UNCHANGED <<files, closed, graphFile, cause, pending, original_people,
                   person_gender_map, order, idx, rowIdx, G, calls, fetched, startFull, owner>>

\* Step1Process without the os.path.exists test
Step1ProcessAlways ==
    /\ pc = "step1"
    /\ \E f \in Fetches(MaxTopicLinks) :
        /\ pending' = process_page(f[1], f[2], f[3])
        /\ fetched' = f
    /\ calls' = [calls EXCEPT ![topic_title] = @ + 1]
    /\ files' = [files EXCEPT ![main_csv_filename] = File(<<>>)]
    /\ owner' = [owner EXCEPT ![main_csv_filename] = topic_title]
    /\ closed' = closed \ {main_csv_filename}
    /\ pc' = "write_main"
    /\ UNCHANGED <<graphFile, cause, original_people, person_gender_map, order,
                   idx, rowIdx, G, startFull>>

\* process_page(topic_title), then save_to_csv up to open(filepath, 'w')
Step1Process ==
    /\ pc = "step1"
    /\ ~Exists(main_csv_filename)
    /\ \E f \in Fetches(MaxTopicLinks) :
        /\ pending' = process_page(f[1], f[2], f[3])
        /\ fetched' = f
    /\ calls' = [calls EXCEPT ![topic_title] = @ + 1]
    /\ files' = [files EXCEPT ![main_csv_filename] = File(<<>>)]
    /\ owner' = [owner EXCEPT ![main_csv_filename] = topic_title]
    /\ closed' = closed \ {main_csv_filename}
    /\ pc' = "write_main"
    /\ UNCHANGED <<graphFile, cause, original_people, person_gender_map, order,
                   idx, rowIdx, G, startFull>>

\* save_to_csv: writerow(header), writerows(person_data), close
WriteMain ==
    /\ pc = "write_main"
    /\ files' = [files EXCEPT ![main_csv_filename] = File(CsvLines(pending))]
    /\ closed' = closed \cup {main_csv_filename}
    /\ pending' = <<>>
    /\ fetched' = NoFetch
    /\ pc' = "load"
    /\ UNCHANGED <<graphFile, cause, original_people, person_gender_map, order,
                   idx, rowIdx, G, calls, startFull, owner>>

(***************************************************************************)
(* Reading the topic CSV into original_people and person_gender_map.       *)
(***************************************************************************)
\* AfterLoop2 that leaves the loop one iteration early
AfterLoop2Early(i, ord) == IF i >= Len(ord) THEN "step3" ELSE "step2"

\* where the script goes when the Step 2 loop reaches position i
AfterLoop2(i, ord) == IF i > Len(ord) THEN "step3" ELSE "step2"

\* the names listed in the person CSVs on disk
NamesInPersonFiles ==
    UNION {NamesOf(IF files[path].lines = <<>> THEN <<>> ELSE Tail(files[path].lines)) :
            path \in Paths \ {main_csv_filename}}

\* LoadFrontier that also takes the names found in the person CSVs
LoadFrontierDeep ==
    /\ pc = "load"
    /\ LET file == files[main_csv_filename].lines IN
        IF file = <<>>
        THEN /\ Abort("StopIteration")
        ELSE LET names == NamesOf(Tail(file)) \cup NamesInPersonFiles IN
             /\ original_people' = names
             /\ person_gender_map' = GenderMapOf(Tail(file))
             /\ \E o \in Orders(names) :
                    /\ order' = o
                    /\ pc' = AfterLoop2(1, o)
             /\ idx' = 1
             /\ UNCHANGED <<cause, pending, rowIdx, G, calls, fetched, startFull, owner>>
    /\ UNCHANGED <<files, closed, graphFile>>

LoadFrontier ==
    /\ pc = "load"
    /\ LET file == files[main_csv_filename].lines IN
        IF file = <<>>
        THEN \* next(reader) on an empty file raises StopIteration
             /\ Abort("StopIteration")
        ELSE /\ original_people' = NamesOf(Tail(file))
             /\ person_gender_map' = GenderMapOf(Tail(file))
             /\ \E o \in Orders(NamesOf(Tail(file))) :
                    /\ order' = o
                    /\ pc' = AfterLoop2(1, o)
             /\ idx' = 1
             /\ UNCHANGED <<cause, pending, rowIdx, G, calls, fetched, startFull, owner>>
    /\ UNCHANGED <<files, closed, graphFile>>

(***************************************************************************)
(* Step 2: one iteration of the loop over original_people.                 *)
(***************************************************************************)
Step2Skip ==
    /\ pc = "step2"
    /\ Exists(person_filename(order[idx]))
    /\ idx' = idx + 1
    /\ pc' = AfterLoop2(idx + 1, order)
    /\ UNCHANGED <<files, closed, graphFile, cause, pending, original_people,
                   person_gender_map, order, rowIdx, G, calls, fetched, startFull, owner>>

\* Step2Process without the os.path.exists test
Step2ProcessAlways ==
    /\ pc = "step2"
    /\ \E f \in Fetches(MaxPersonLinks) :
        /\ pending' = process_page(f[1], f[2], f[3])
        /\ fetched' = f
    /\ calls' = [calls EXCEPT ![order[idx]] = @ + 1]
    /\ files' = [files EXCEPT ![person_filename(order[idx])] = File(<<>>)]
    /\ owner' = [owner EXCEPT ![person_filename(order[idx])] = order[idx]]
    /\ closed' = closed \ {person_filename(order[idx])}
    /\ pc' = "write_person"
    /\ UNCHANGED <<graphFile, cause, original_people, person_gender_map, order,
                   idx, rowIdx, G, startFull>>

Step2Process ==
    /\ pc = "step2"
    /\ ~Exists(person_filename(order[idx]))
    /\ \E f \in Fetches(MaxPersonLinks) :
        /\ pending' = process_page(f[1], f[2], f[3])
        /\ fetched' = f
    /\ calls' = [calls EXCEPT ![order[idx]] = @ + 1]
    /\ files' = [files EXCEPT ![person_filename(order[idx])] = File(<<>>)]
    /\ owner' = [owner EXCEPT ![person_filename(order[idx])] = order[idx]]
    /\ closed' = closed \ {person_filename(order[idx])}
    /\ pc' = "write_person"
    /\ UNCHANGED <<graphFile, cause, original_people, person_gender_map, order,
                   idx, rowIdx, G, startFull>>

\* WritePerson whose save_to_csv writes nothing, header included, for an empty list
WritePersonNoHeader ==
    /\ pc = "write_person"
    /\ files' = [files EXCEPT ![person_filename(order[idx])] =
                    IF pending = <<>> THEN File(<<>>) ELSE File(CsvLines(pending))]
    /\ closed' = closed \cup {person_filename(order[idx])}
    /\ pending' = <<>>
    /\ fetched' = NoFetch
    /\ idx' = idx + 1
    /\ pc' = AfterLoop2(idx + 1, order)
    /\ UNCHANGED <<graphFile, cause, original_people, person_gender_map, order,
                   rowIdx, G, calls, startFull, owner>>

WritePerson ==
    /\ pc = "write_person"
    /\ files' = [files EXCEPT ![person_filename(order[idx])] = File(CsvLines(pending))]
    /\ closed' = closed \cup {person_filename(order[idx])}
    /\ pending' = <<>>
    /\ fetched' = NoFetch
    /\ idx' = idx + 1
    /\ pc' = AfterLoop2(idx + 1, order)
    /\ UNCHANGED <<graphFile, cause, original_people, person_gender_map, order,
                   rowIdx, G, calls, startFull, owner>>

(***************************************************************************)
(* Step 3: the topic node, then one Person node and one edge per name.     *)
(***************************************************************************)
Step3Init ==
    /\ pc = "step3"
    /\ G' = add_node(EmptyGraph, topic_title, [type |-> "Topic"])
    /\ idx' = 1
    /\ pc' = IF order = <<>> THEN "step5" ELSE "step3loop"
    /\ UNCHANGED <<files, closed, graphFile, cause, pending, original_people,
                   person_gender_map, order, rowIdx, calls, fetched, startFull, owner>>

\* Step3Person that only inserts the edge and lets add_edge create the node
Step3PersonEdgeOnly ==
    /\ pc = "step3loop"
    /\ G' = add_edge(G, topic_title, order[idx])
    /\ IF idx + 1 > Len(order)
       THEN idx' = 1 /\ pc' = "step4"
       ELSE idx' = idx + 1 /\ pc' = "step3loop"
    /\ UNCHANGED <<files, closed, graphFile, cause, pending, original_people,
                   person_gender_map, order, rowIdx, calls, fetched, startFull, owner>>

\* Step3Person without the edge from the topic to the person
Step3PersonNoEdge ==
    /\ pc = "step3loop"
    /\ LET person_name == order[idx]
           gender == IF person_name \in DOMAIN person_gender_map
                     THEN person_gender_map[person_name] ELSE "Unknown"
       IN  G' = add_node(G, person_name, [type |-> "Person", gender |-> gender])
    /\ IF idx + 1 > Len(order)
       THEN idx' = 1 /\ pc' = "step4"
       ELSE idx' = idx + 1 /\ pc' = "step3loop"
    /\ UNCHANGED <<files, closed, graphFile, cause, pending, original_people,
                   person_gender_map, order, rowIdx, calls, fetched, startFull, owner>>

Step3Person ==
    /\ pc = "step3loop"
    /\ LET person_name == order[idx]
           gender == IF person_name \in DOMAIN person_gender_map
                     THEN person_gender_map[person_name] ELSE "Unknown"
       IN  G' = add_edge(add_node(G, person_name, [type |-> "Person", gender |-> gender]),
                         topic_title, person_name)
    /\ IF idx + 1 > Len(order)
       THEN idx' = 1 /\ pc' = "step4"
       ELSE idx' = idx + 1 /\ pc' = "step3loop"
    /\ UNCHANGED <<files, closed, graphFile, cause, pending, original_people,
                   person_gender_map, order, rowIdx, calls, fetched, startFull, owner>>

(***************************************************************************)
(* Step 4: the loop over original_people and, inside it, over the rows of  *)
(* the person's CSV.                                                       *)
(***************************************************************************)
\* the outer loop moves to position i, or ends
Advance4(i) ==
    /\ idx' = i
    /\ rowIdx' = 0
    /\ pc' = IF i > Len(order) THEN "step5" ELSE "step4"

\* os.path.exists, open, next(reader)
Step4Open ==
    /\ pc = "step4"
    /\ LET file == files[person_filename(order[idx])] IN
        IF ~file.exists
        THEN /\ Advance4(idx + 1)
             /\ UNCHANGED <<cause, pending, original_people, person_gender_map,
                            order, G, calls, fetched, startFull, owner>>
        ELSE IF file.lines = <<>>
        THEN \* next(reader) on an empty file raises StopIteration
             Abort("StopIteration")
        ELSE IF Len(file.lines) = 1
        THEN /\ Advance4(idx + 1)
             /\ UNCHANGED <<cause, pending, original_people, person_gender_map,
                            order, G, calls, fetched, startFull, owner>>
        ELSE /\ rowIdx' = 2
             /\ pc' = "step4row"
             /\ UNCHANGED <<cause, pending, original_people, person_gender_map,
                            order, idx, G, calls, fetched, startFull, owner>>
    /\ UNCHANGED <<files, closed, graphFile>>

\* LinkRow with the edge back to person_name left out of the first branch
LinkRowOneWay(g, people, person_name, row) ==
    LET linked_person == Strip(row[1])
        linked_gender == row[2]
    IN  IF linked_person = <<>> THEN g
        ELSE IF linked_person \in people
        THEN add_edge(g, person_name, linked_person)
        ELSE add_edge(add_node(g, linked_person,
                               [type |-> "Person", gender |-> linked_gender]),
                      person_name, linked_person)

\* LinkRow without the membership test: every link gets both edges
LinkRowBothWays(g, people, person_name, row) ==
    LET linked_person == Strip(row[1])
        linked_gender == row[2]
    IN  IF linked_person = <<>> THEN g
        ELSE add_edge(add_edge(add_node(g, linked_person,
                                        [type |-> "Person", gender |-> linked_gender]),
                               person_name, linked_person),
                      linked_person, person_name)

\* LinkRow whose second branch records the edge but never creates the node
LinkRowEdgeOnly(g, people, person_name, row) ==
    LET linked_person == Strip(row[1])
    IN  IF linked_person = <<>> THEN g
        ELSE IF linked_person \in people
        THEN add_edge(add_edge(g, person_name, linked_person), linked_person, person_name)
        ELSE [g EXCEPT !.edges = @ \cup {<<person_name, linked_person>>}]

\* the body of the inner loop for one row
\* LinkRow that sets the node attributes from the row in both branches
LinkRowRelabel(g, people, person_name, row) ==
    LET linked_person == Strip(row[1])
        linked_gender == row[2]
        labelled == add_node(g, linked_person, [type |-> "Person", gender |-> linked_gender])
    IN  IF linked_person = <<>> THEN g
        ELSE IF linked_person \in people
        THEN add_edge(add_edge(labelled, person_name, linked_person), linked_person, person_name)
        ELSE add_edge(labelled, person_name, linked_person)

LinkRow(g, people, person_name, row) ==
    LET linked_person == Strip(row[1])
        linked_gender == row[2]
    IN  IF linked_person = <<>> THEN g
        ELSE IF linked_person \in people
        THEN add_edge(add_edge(g, person_name, linked_person), linked_person, person_name)
        ELSE add_edge(add_node(g, linked_person,
                               [type |-> "Person", gender |-> linked_gender]),
                      person_name, linked_person)

Step4Row ==
    /\ pc = "step4row"
    /\ LET lines == files[person_filename(order[idx])].lines IN
        /\ G' = LinkRow(G, original_people, order[idx], lines[rowIdx])
        /\ IF rowIdx = Len(lines)
           THEN Advance4(idx + 1)
           ELSE rowIdx' = rowIdx + 1 /\ UNCHANGED <<idx, pc>>
    /\ UNCHANGED <<files, closed, graphFile, cause, pending, original_people,
                   person_gender_map, order, calls, fetched, startFull, owner>>

(***************************************************************************)
(* Step 5: nx.write_graphml.                                               *)
(***************************************************************************)
Step5 ==
    /\ pc = "step5"
    /\ graphFile' = GraphFile(G)
    /\ pc' = "done"
    /\ UNCHANGED <<files, closed, cause, pending, original_people,
                   person_gender_map, order, idx, rowIdx, G, calls, fetched, startFull, owner>>

(***************************************************************************)
(* Failures: exceptions out of the page source or the file system, and a   *)
(* kill of the process.  None is caught by the script.                     *)
(***************************************************************************)
\* the script is about to call process_page
AtFetch ==
    \/ pc = "step1" /\ ~Exists(main_csv_filename)
    \/ pc = "step2" /\ ~Exists(person_filename(order[idx]))

Writing == pc \in {"write_main", "write_person"}

WritingPath ==
    IF pc = "write_main" THEN main_csv_filename ELSE person_filename(order[idx])

\* the file an interrupted save_to_csv leaves: the lines flushed so far
CutShort ==
    \E k \in 0..Len(pending) :
        files' = [files EXCEPT ![WritingPath] = File(SubSeq(CsvLines(pending), 1, k))]

\* the file the script is about to produce
FetchPath ==
    IF pc = "step1" THEN main_csv_filename ELSE person_filename(order[idx])

\* FetchFailure of a script that opens the CSV before it fetches the page
FetchFailureAfterOpen ==
    /\ AtFetch
    /\ files' = [files EXCEPT ![FetchPath] = File(<<>>)]
    /\ Abort("FetchFailure")
    /\ UNCHANGED <<closed, graphFile>>

\* wiki_wiki.page / page.links raises
FetchFailure ==
    /\ AtFetch
    /\ Abort("FetchFailure")
    /\ UNCHANGED <<files, closed, graphFile>>

\* open() raises before the file is created, or a write raises part-way
PersistenceFailure ==
    /\ \/ AtFetch /\ UNCHANGED files
       \/ Writing /\ CutShort
    /\ Abort("PersistenceFailure")
    /\ UNCHANGED <<closed, graphFile>>

\* write_graphml raises
ExportFailure ==
    /\ pc = "step5"
    /\ Abort("ExportFailure")
    /\ UNCHANGED <<files, closed, graphFile>>

\* the process is killed (or the machine stops) at any step
Kill ==
    /\ Running
    /\ IF Writing THEN CutShort ELSE UNCHANGED files
    /\ IF pc = "step5"
       THEN graphFile' \in {graphFile, PartialGraphFile}
       ELSE UNCHANGED graphFile
    /\ Abort("killed")
    /\ UNCHANGED closed

\* the script is invoked again on the same working directory
Restart ==
    /\ ~Running
    /\ pc' = "step1"
    /\ cause' = "none"
    /\ FreshMemory
    /\ calls' = NoCalls
    /\ startFull' = AllCheckpointed
    /\ UNCHANGED owner
    /\ UNCHANGED <<files, closed, graphFile>>

Script ==
    \/ Step1Skip
    \/ Step1Process
    \/ WriteMain
    \/ LoadFrontier
    \/ Step2Skip
    \/ Step2Process
    \/ WritePerson
    \/ Step3Init
    \/ Step3Person
    \/ Step4Open
    \/ Step4Row
    \/ Step5

Next ==
    \/ Script
    \/ FetchFailure
    \/ PersistenceFailure
    \/ ExportFailure
    \/ Kill
    \/ Restart

Spec == Init /\ [][Next]_vars

(***************************************************************************)
(* Checkpoints: visibility of partial writes, idempotence.                 *)
(***************************************************************************)
\* the save_to_csv of a live process is between open() and close() on path
BeingWritten(path) == Writing /\ path = WritingPath

\* C1: no partial-write visibility.  Whenever a checkpoint file exists and no
\* live process is in the middle of writing it (so also after a kill or an
\* exception inside save_to_csv), the file holds the header and every row
\* handed to save_to_csv.
C1_NoPartialWriteVisible ==
    \A path \in Paths :
        (Exists(path) /\ ~BeingWritten(path)) => path \in closed

\* C2: an invocation that began with the topic CSV and the CSV of every
\* frontier name present has called process_page zero times.
C2_SecondRunFetchesNothing ==
    startFull => \A t \in Titles : calls[t] = 0

\* an invocation that began with every checkpoint present has gone through
\* Step 1 and the whole Step 2 loop over a non-empty frontier
C2_Witness ==
    /\ startFull
    /\ pc = "step3"
    /\ original_people # {}

(***************************************************************************)
(* Re-invocation after a failure.                                          *)
(***************************************************************************)
\* the steps the environment, not the script, decides
Failure == FetchFailure \/ PersistenceFailure \/ ExportFailure \/ Kill

\* The script runs on whenever it can, it is invoked again after it ended,
\* and from some point on no failure is injected.
FairSpec ==
    /\ Spec
    /\ WF_vars(Script)
    /\ WF_vars(Restart)
    /\ <>[][~Failure]_vars

\* a step that does not call process_page
NoNewCall == \A t \in Titles : calls'[t] <= calls[t]

\* the crawl is complete and the graph is on disk
Finished ==
    /\ pc = "done"
    /\ AllCheckpointed
    /\ graphFile.state = "written"

\* C3: resumability.  A step of the script at an entity whose checkpoint
\* exists does not call process_page, and once failures have stopped every
\* aborted invocation is followed by one that ends with the topic and every
\* frontier name checkpointed and the graph exported.
C3_ResumesAfterFailure ==
    /\ [][(pc = "step1" /\ Exists(main_csv_filename)) => NoNewCall]_vars
    /\ [][(pc = "step2" /\ Exists(person_filename(order[idx]))) => NoNewCall]_vars
    /\ [](pc = "aborted" => <>Finished)

(***************************************************************************)
(* The graph.                                                              *)
(***************************************************************************)
\* the rows of a CSV after its header
RowsOf(path) == IF files[path].lines = <<>> THEN <<>> ELSE Tail(files[path].lines)

\* the names in the persisted LinkList of a person
LinkNames(person_name) == NamesOf(RowsOf(person_filename(person_name)))

TypeOf(g, n) == IF "type" \in DOMAIN g.node[n] THEN g.node[n].type ELSE "none"

\* G exists: Step 3 has created it
Building == pc \in {"step3loop", "step4", "step4row", "step5", "done"}

\* the rows that name c, as <<position of the person in the Step 4 loop, row>>
Refs(c) ==
    UNION {{<<i, r>> : r \in {k \in 1..Len(RowsOf(person_filename(order[i]))) :
                                Strip(RowsOf(person_filename(order[i]))[k][1]) = c}} :
            i \in 1..Len(order)}

RefGender(x) == RowsOf(person_filename(order[x[1]]))[x[2]][2]

\* the row Step 4 reaches first
FirstRef(c) ==
    CHOOSE x \in Refs(c) :
        \A y \in Refs(c) : x[1] < y[1] \/ (x[1] = y[1] /\ x[2] <= y[2])

\* c is outside the frontier and two frontier persons list it with different genders
Disputed(c) ==
    /\ c \notin original_people
    /\ \E x, y \in Refs(c) :
        /\ order[x[1]] # order[y[1]]
        /\ RefGender(x) # RefGender(y)

\* C4: first write wins for a leaf.  In the final graph a person outside the
\* frontier that two frontier persons list with different genders carries the
\* gender of the row Step 4 processed first.
C4_LeafGenderFirstWriteWins ==
    pc = "done" =>
        \A c \in People : Disputed(c) => G.node[c].gender = RefGender(FirstRef(c))

\* C5: from the creation of the graph on, exactly one node has type Topic
\* and it is the topic.
C5_OneTopicNode ==
    Building => {n \in DOMAIN G.node : TypeOf(G, n) = "Topic"} = {topic_title}

\* C6 as stated: for a frontier person a and a name c of a's persisted
\* LinkList outside the frontier, the final graph has the edge a -> c, has no
\* edge c -> a, and c is a node of type Person.
C6_LeafRule ==
    pc = "done" =>
        \A a \in original_people : \A c \in LinkNames(a) \ original_people :
            /\ <<a, c>> \in G.edges
            /\ <<c, a>> \notin G.edges
            /\ c \in DOMAIN G.node
            /\ TypeOf(G, c) = "Person"

\* C6 amended: for a frontier person a and a name c of a's persisted LinkList
\* outside the frontier, the final graph has the edge a -> c, c is a node of
\* type Person, and the edge c -> a is present exactly when c is the topic,
\* whose edge to a Step 3 added.
C6_LeafRuleButTopic ==
    pc = "done" =>
        \A a \in original_people : \A c \in LinkNames(a) \ original_people :
            /\ <<a, c>> \in G.edges
            /\ <<c, a>> \in G.edges <=> c = topic_title
            /\ c \in DOMAIN G.node
            /\ TypeOf(G, c) = "Person"

\* a finished graph with a leaf that is not the topic
C6_Witness ==
    /\ pc = "done"
    /\ \E a \in original_people : \E c \in LinkNames(a) \ original_people :
        c # topic_title

\* C7: for frontier persons a and b, if a's persisted LinkList names b, the
\* final graph has both a -> b and b -> a, whatever b's own LinkList says
\* (a = b gives the loop a -> a).
C7_FrontierLinkBothWays ==
    pc = "done" =>
        \A a, b \in original_people :
            b \in LinkNames(a) => <<a, b>> \in G.edges /\ <<b, a>> \in G.edges

\* a finished graph where a names b, b has its own CSV and does not name a
C7_Witness ==
    /\ pc = "done"
    /\ \E a, b \in original_people :
        /\ a # b
        /\ person_filename(a) # person_filename(b)
        /\ b \in LinkNames(a)
        /\ a \notin LinkNames(b)

NoDangling(g) == \A e \in g.edges : e[1] \in DOMAIN g.node /\ e[2] \in DOMAIN g.node

C9_AtMostOncePerName ==
    \A t \in Titles : calls[t] <= 1

\* C10: process_page is called only for the topic and for the persons of the
\* topic's LinkList, and every checkpoint on disk is the topic CSV or the CSV
\* of such a person.
C10_OneLevelOnly ==
    /\ \A t \in Titles : calls[t] > 0 => t = topic_title \/ t \in FrontierOnDisk
    /\ \A path \in Paths :
        Exists(path) =>
            path = main_csv_filename \/ \E n \in FrontierOnDisk : path = person_filename(n)

\* Step 2 is over and a person found only in a frontier person's CSV has no CSV
C10_Witness ==
    /\ pc = "step3"
    /\ \E a \in original_people : \E c \in LinkNames(a) \ original_people :
        /\ c # topic_title
        /\ ~Exists(person_filename(c))
        /\ calls[a] = 1
        /\ calls[c] = 0

(***************************************************************************)
(* A working directory in which the crawl is complete: the topic CSV names *)
(* Alice and Bob, Alice's CSV lists Bob and Carol, Bob's CSV lists Dave.   *)
(* The script is run on it, any number of times; every run skips Steps 1   *)
(* and 2 and builds the graph from the files.                              *)
(***************************************************************************)
Alice == <<"A", "l", "i", "c", "e">>
Bob   == <<"B", "o", "b">>
Carol == <<"C", "a", "r", "o", "l">>
Dave  == <<"D", "a", "v", "e">>

\* the topic CSVs that name exactly Alice and Bob, in either row order and
\* with any genders
ScenarioTopicRows ==
    {r \in ({Alice, Bob} \X Gender) \X ({Alice, Bob} \X Gender) : r[1][1] # r[2][1]}

ScenarioFiles(topicRows) ==
    (main_csv_filename :> File(CsvLines(topicRows)))
    @@ (person_filename(Alice) :> File(CsvLines(<<<<Bob, "Female">>, <<Carol, "Female">>>>)))
    @@ (person_filename(Bob) :> File(CsvLines(<<<<Dave, "Male">>>>)))

ScenarioInit ==
    /\ \E r \in ScenarioTopicRows : files = ScenarioFiles(r)
    /\ closed = {main_csv_filename, person_filename(Alice), person_filename(Bob)}
    /\ graphFile = NoGraphFile
    /\ pc = "step1"
    /\ cause = "none"
    /\ pending = <<>>
    /\ original_people = {}
    /\ person_gender_map = <<>>
    /\ order = <<>>
    /\ idx = 0
    /\ rowIdx = 0
    /\ G = EmptyGraph
    /\ calls = NoCalls
    /\ fetched = NoFetch
    /\ startFull = TRUE
    /\ owner = (main_csv_filename :> topic_title)
                 @@ (person_filename(Alice) :> Alice) @@ (person_filename(Bob) :> Bob)

ScenarioNext ==
    \/ Step1Skip
    \/ LoadFrontier
    \/ Step2Skip
    \/ Step3Init
    \/ Step3Person
    \/ Step4Open
    \/ Step4Row
    \/ Step5
    \/ Restart

ScenarioSpec == ScenarioInit /\ [][ScenarioNext]_vars

\* C14: the concrete scenario.  On that directory every completed run, in
\* whichever order it iterates the frontier, has built and exported the graph
\* with the nodes AI (Topic), Alice, Bob, Carol, Dave (Person) and the edges
\* AI->Alice, AI->Bob, Alice->Bob, Bob->Alice, Alice->Carol, Bob->Dave, and
\* no other node or edge.
C14_ScenarioGraph ==
    pc = "done" =>
        /\ DOMAIN G.node = {topic_title, Alice, Bob, Carol, Dave}
        /\ TypeOf(G, topic_title) = "Topic"
        /\ \A n \in {Alice, Bob, Carol, Dave} : TypeOf(G, n) = "Person"
        /\ G.edges = {<<topic_title, Alice>>, <<topic_title, Bob>>, <<Alice, Bob>>,
                      <<Bob, Alice>>, <<Alice, Carol>>, <<Bob, Dave>>}
        /\ graphFile = GraphFile(G)

\* a run that iterated Bob before Alice has finished
C14_Witness ==
    /\ pc = "done"
    /\ order = <<Bob, Alice>>
    /\ <<Bob, Dave>> \in G.edges

(***************************************************************************)
(* process_page: missing pages, failures, the result.                      *)
(***************************************************************************)
\* the process_page call in progress found that the page does not exist
PageMissing == Writing /\ ~fetched[1]

\* the step a script takes out of save_to_csv when nothing interrupts it
SavedHeaderOnly ==
    /\ files'[WritingPath] = File(<<Header>>)
    /\ WritingPath \in closed'
    /\ IF pc = "write_main"
       THEN pc' = "load"
       ELSE idx' = idx + 1 /\ pc' = AfterLoop2(idx + 1, order)

\* C11: a missing page is recovered.  When the page does not exist,
\* process_page returns the empty list, and unless the environment interrupts
\* the write, the script persists a header-only CSV and goes on to the next
\* frontier name (or to the next step); the script itself does not abort.
C11_MissingPageRecovered ==
    /\ [](PageMissing => pending = <<>>)
    /\ [][PageMissing =>
            \/ SavedHeaderOnly
            \/ pc' = "aborted" /\ cause' \in {"PersistenceFailure", "killed"}]_vars

\* a frontier page was found missing and another frontier name is still to come
C11_Witness ==
    /\ pc = "write_person"
    /\ ~fetched[1]
    /\ idx < Len(order)

\* C12: a fetch failure propagates and leaves earlier progress intact.  The
\* step in which the page source fails for an entity ends the run there; the
\* entity's CSV still does not exist, and every file and the exported graph
\* are exactly as they were before the failure.
C12_FetchFailurePropagates ==
    [][(pc # "aborted" /\ pc' = "aborted" /\ cause' = "FetchFailure") =>
            /\ AtFetch
            /\ ~files'[FetchPath].exists
            /\ files' = files
            /\ closed' = closed
            /\ graphFile' = graphFile]_vars

\* a run aborted by a fetch failure for a frontier name, after the topic CSV
\* and another person CSV had been written
C12_Witness ==
    /\ pc = "aborted"
    /\ cause = "FetchFailure"
    /\ Exists(main_csv_filename)
    /\ \E a, b \in NamesOf(RowsOf(main_csv_filename)) :
          Exists(person_filename(a)) /\ ~Exists(person_filename(b))

\* the positions of the links for which is_person_name is true
PersonPositions(links) == {i \in 1..Len(links) : is_person_name(links[i])}

\* C13: the result of process_page.  For an existing page the returned list
\* is the fetched link titles that are person names, every one of them and
\* nothing else, in the order the page source returned them, each paired with
\* the gender detect_gender derives for that title.
C13_ResultIsOrderedPersonLinks ==
    (Writing /\ fetched[1]) =>
        \E f \in [1..Len(pending) -> 1..Len(fetched[2])] :
            /\ \A j, k \in 1..Len(pending) : j < k => f[j] < f[k]
            /\ {f[k] : k \in 1..Len(pending)} = PersonPositions(fetched[2])
            /\ \A k \in 1..Len(pending) :
                  pending[k] = <<fetched[2][f[k]], detect_gender(fetched[3][f[k]])>>

\* the topic page exists and two of its links are person names
C13_Witness ==
    /\ pc = "write_main"
    /\ fetched[1]
    /\ Len(pending) = 2
    /\ pending[1][2] # pending[2][2]

(***************************************************************************)
(* Frame conditions of the graph builder and of the CSV store.             *)
(***************************************************************************)
\* Step 3 is over: every name of original_people has its node
FrontierNodesBuilt == pc \in {"step4", "step4row", "step5", "done"}

\* the row Step 4 is about to handle names a member of original_people
AtFrontierRow ==
    /\ pc = "step4row"
    /\ Strip(files[person_filename(order[idx])].lines[rowIdx][1]) \in original_people

\* C15: the gender of a frontier name is not overwritten by link lists.  From
\* the end of Step 3 to the end of the run the gender attribute of every name
\* in original_people is the one recorded for it in the topic CSV, and
\* handling a row that names a member of original_people changes no node
\* attribute.
C15_FrontierGenderKept ==
    /\ [](FrontierNodesBuilt =>
            \A b \in original_people :
                /\ b \in DOMAIN G.node
                /\ "gender" \in DOMAIN G.node[b]
                /\ G.node[b].gender = GenderMapOf(RowsOf(main_csv_filename))[b])
    /\ [][(AtFrontierRow /\ pc' # "aborted") => G'.node = G.node]_vars

\* a finished run in which some person CSV lists a frontier name under a
\* gender other than the one in the topic CSV
C15_Witness ==
    /\ pc = "done"
    /\ \E a, b \in original_people :
          \E i \in 1..Len(RowsOf(person_filename(a))) :
              /\ Strip(RowsOf(person_filename(a))[i][1]) = b
              /\ RowsOf(person_filename(a))[i][2] # GenderMapOf(RowsOf(main_csv_filename))[b]

\* C16: CSV files are write-once.  A file that exists and is not the one the
\* live process opened and is still writing is left exactly as it is by every
\* step of every run; and save_to_csv opens a path only when no file exists
\* there.
C16_WriteOnce ==
    /\ [][\A path \in Paths :
            (Exists(path) /\ ~BeingWritten(path)) => files'[path] = files[path]]_vars
    /\ [][(~Writing /\ Writing') => ~files[WritingPath'].exists]_vars

\* a later run has passed Step 1 without a process_page call because the
\* topic CSV exists, while a person CSV is still missing
C16_Witness ==
    /\ pc = "step2"
    /\ calls = NoCalls
    /\ ~startFull
    /\ \E n \in original_people : ~Exists(person_filename(n))

(***************************************************************************)
(* Order of the crawl and the graph assembly.                              *)
(***************************************************************************)
\* the script is past the Step 2 loop
PastCrawl == pc \in {"step3", "step3loop", "step4", "step4row", "step5", "done"}

\* C17: the graph is assembled after the crawl.  A run is past Step 2 only
\* when the topic CSV and the CSV of every name in original_people exist; the
\* export file changes only in Step 5; a fetch or persistence failure happens
\* before Step 3 and the process it ends does nothing more.
C17_BuildAfterCrawl ==
    /\ [](PastCrawl =>
            /\ Exists(main_csv_filename)
            /\ original_people = FrontierOnDisk
            /\ \A n \in original_people : Exists(person_filename(n)))
    /\ [][graphFile' # graphFile => pc = "step5"]_vars
    /\ [][(pc # "aborted" /\ pc' = "aborted"
             /\ cause' \in {"FetchFailure", "PersistenceFailure"}) => ~PastCrawl]_vars
    /\ [][pc = "aborted" => (pc' \in {"aborted", "step1"} /\ G' = EmptyGraph
                              /\ graphFile' = graphFile)]_vars

\* a run that processed two frontier pages itself is about to build the graph
C17_Witness ==
    /\ pc = "step3"
    /\ Cardinality(original_people) = 2
    /\ \A n \in original_people : calls[n] >= 1

(***************************************************************************)
(* One CSV per name.                                                       *)
(***************************************************************************)
\* the script is at an os.path.exists test, or reading the CSV, of order[idx]
AtPersonFile == pc \in {"step2", "step4", "step4row"}

\* C18: a CSV proves that its own name was processed.  Whenever the script
\* finds, or reads, the CSV of a name of original_people, that file was
\* opened to hold the process_page result of that very name - also when two
\* names of original_people differ only in ' ' against '_'.
C18_CheckpointIsOwn ==
    (AtPersonFile /\ Exists(person_filename(order[idx]))) =>
        owner[person_filename(order[idx])] = order[idx]

(***************************************************************************)
(* The exported graph.                                                     *)
(***************************************************************************)
\* C19: the result does not depend on the iteration order.  A run that is
\* about to export, on a directory where an earlier run already exported,
\* has built the graph that is in the export file: the CSVs are the same for
\* both runs (they are written once, and all existed before the first
\* export), so the two runs differ only in the order in which they iterated
\* original_people.
C19_OrderIndependent ==
    (pc = "step5" /\ graphFile.state = "written") => G = graphFile.graph

\* a node carries type Topic, or type Person and a gender
Attributed(g, n) ==
    /\ TypeOf(g, n) \in {"Topic", "Person"}
    /\ TypeOf(g, n) = "Person" => "gender" \in DOMAIN g.node[n]

\* C20: every node is fully attributed.  At every point of the graph
\* assembly, in the final graph and in the exported one, each node has a type
\* in {Topic, Person} and each Person node has a gender; no node exists only
\* because an edge was inserted.
C20_NodesAttributed ==
    /\ \A n \in DOMAIN G.node : Attributed(G, n)
    /\ \A n \in DOMAIN graphFile.graph.node : Attributed(graphFile.graph, n)

\* a finished run whose graph has a node outside original_people, created in
\* Step 4, and a bidirectional pair of edges
C20_Witness ==
    /\ pc = "done"
    /\ \E n \in DOMAIN G.node : n \notin original_people /\ n # topic_title
    /\ \E a, b \in original_people : <<a, b>> \in G.edges /\ <<b, a>> \in G.edges /\ a # b
====
